---- MODULE Spec2Model ----
(***************************************************************************)
(* ScreenQueryProvider (src/src/providers/ScreenQueryProvider.tsx): the    *)
(* provider keeps three maps (queriesRef, observersRef, queryPromiseRef)   *)
(* and offers getQueryResult, refetchQueries and clearCache over a shared  *)
(* query cache.  QueryObserver instances and promises are modelled as      *)
(* numbered instances so that referential identity can be stated.          *)
(***************************************************************************)
EXTENDS Integers, Sequences, FiniteSets, TLC

\* ---- bounds -------------------------------------------------------------
NKeys == 2          \* distinct query keys
MaxInput == 2       \* longest results array handed to getQueryResult
MaxWatchers == 3    \* QueryObserver instances created over a run
MaxSignals == 2     \* combined promises created over a run
MaxClears == 2      \* clearCache calls over a run
MaxRefetches == 2   \* refetchQueries calls over a run
MaxMounts == 3      \* provider instances mounted over a run

\* ---- values -------------------------------------------------------------
\* Query keys.  A key stands for one JSON value; JSON.stringify is injective
\* on the keys used here, so the key string is the key itself.
Keys == 1..NKeys

\* error values: NullErr is null/undefined (a fetch rejected without a
\* value), the others are truthy error objects
NullErr == "null"
ResultErrs == {NullErr, "e1", "e2"}
CacheErrs == {NullErr, "e3"}
Truthy(e) == e # NullErr

\* data values: NoData is undefined
NoData == "undefined"
DataVals == {"d1", "d2"}

\* a UseQueryResult tagged with its queryKey, as the caller passes it
ScreenQueryResult ==
    [queryKey : Keys, status : {"pending"}, data : {NoData}, error : {NullErr}]
    \cup [queryKey : Keys, status : {"success"}, data : DataVals, error : {NullErr}]
    \cup [queryKey : Keys, status : {"error"}, data : {NoData}, error : ResultErrs]

\* What queriesRef keeps of the object it is handed.  The map is declared as
\* Map<string, ScreenQuery> and the provider reads nothing but queryKey from
\* its values, so a stored object is kept as a ScreenQuery ({queryKey});
\* SpecRegistry keeps the whole object, to tell the objects of two calls
\* apart.
asScreenQuery == "ScreenQuery"
asPresented == "presented"
keptAs(stored, query) ==
    IF stored = asPresented THEN query ELSE [queryKey |-> query.queryKey]

\* the results arrays a caller passes: one result per distinct query key
DistinctKeys(r) == \A i, j \in DOMAIN r : i # j => r[i].queryKey # r[j].queryKey
Inputs == {r \in UNION {[1..n -> ScreenQueryResult] : n \in 1..MaxInput} :
              DistinctKeys(r)}

\* state of one query in the shared cache
QueryState ==
    [status : {"pending", "success"}, error : {NullErr}]
    \cup [status : {"error"}, error : CacheErrs]

VARIABLES
    cache,            \* query key -> state of the query in the QueryClient
    queriesRef,       \* entries <<key, query>> of queriesRef (Query Registry)
    observersRef,     \* entries <<key, observer id>> of observersRef (Pool)
    queryPromiseRef,  \* entries <<query-set key, promise id>> (Coalescer)
    observers,        \* observer id -> the QueryObserver instance
    promises,         \* promise id -> the combined promise instance
    clears,           \* clearCache calls made so far
    last,             \* the call that has just been made and its outcome
    notifyFn,         \* the notify function of the notifyManager
    refetches,        \* call id -> the refetchQueries call and its requests
    mounted,          \* whether the provider instance of the three refs is mounted
    mounts,           \* provider instances mounted so far
    peer              \* a second provider instance under the same QueryClient

vars == <<cache, queriesRef, observersRef, queryPromiseRef, observers,
          promises, clears, last, notifyFn, refetches, mounted, mounts, peer>>

\* the state refetchQueries works on besides the registry
refetchVars == <<notifyFn, refetches>>

\* the provider instances: queriesRef, observersRef and queryPromiseRef are
\* the refs of the instance whose callbacks run, peer holds the refs of the
\* other instance
providerVars == <<mounted, mounts, peer>>

\* ---- maps ---------------------------------------------------------------
\* Map.get on a set of <<key, value>> entries; 0 is undefined
MapGet(m, k) ==
    IF \E e \in m : e[1] = k THEN (CHOOSE e \in m : e[1] = k)[2] ELSE 0

\* Map.set: replaces the entry of an existing key
MapSet(m, k, v) == {e \in m : e[1] # k} \cup {<<k, v>>}

\* Map.delete
MapDelete(m, k) == {e \in m : e[1] # k}

\* [...map.values()]
MapValues(m) == {e[2] : e \in m}

\* ---- module-level functions --------------------------------------------
\* new QueryObserver(queryClient, {...existingQuery?.options, queryKey}):
\* the first result of the observer is computed from the query in the cache
createObserver(c, query) ==
    [key |-> query.queryKey, status |-> c[query.queryKey].status,
     error |-> c[query.queryKey].error, destroyed |-> FALSE, listeners |-> {}]

\* result.isLoading || result.isPending of observer.getCurrentResult()
checkLoadingState(obs, ids) == \E id \in ids : obs[id].status = "pending"

\* JSON.stringify(query.queryKey)
getQueryKeyString(query) == query.queryKey

\* Array.prototype.sort on the key strings (insertion into a sorted prefix)
RECURSIVE SortedInsert(_, _)
SortedInsert(s, x) ==
    IF s = << >> THEN <<x>>
    ELSE IF x <= Head(s) THEN <<x>> \o s
    ELSE <<Head(s)>> \o SortedInsert(Tail(s), x)

RECURSIVE Sort(_)
Sort(s) == IF s = << >> THEN << >> ELSE SortedInsert(Sort(Tail(s)), Head(s))

\* a key that keeps the order of the input
generateQuerySetKeyUnsorted(queries) ==
    [i \in 1..Len(queries) |-> getQueryKeyString(queries[i])]

\* queries.map(getQueryKeyString).sort().join('|')
generateQuerySetKey(queries) ==
    Sort([i \in 1..Len(queries) |-> getQueryKeyString(queries[i])])

\* Array.prototype.find((r) => r.isError): the index of the first element
\* in error status, 0 when there is none
findIsError(s) ==
    IF \E i \in 1..Len(s) : s[i].status = "error"
    THEN CHOOSE i \in 1..Len(s) :
             /\ s[i].status = "error"
             /\ \A j \in 1..(i - 1) : s[j].status # "error"
    ELSE 0

\* observers.map(getCurrentResult).find(isError)?.error
\*   ?? results.find(isError)?.error
\* an error search over every observer, not only those of the input
getQueryErrorAnyObserver(obs, currentObservers, results) ==
    LET wi == findIsError(obs)
        ri == findIsError(results)
        wErr == IF wi = 0 THEN NullErr ELSE obs[wi].error
        rErr == IF ri = 0 THEN NullErr ELSE results[ri].error
    IN  IF wErr # NullErr THEN wErr ELSE rErr

getQueryError(obs, currentObservers, results) ==
    LET cur == [i \in 1..Len(currentObservers) |-> obs[currentObservers[i]]]
        wi == findIsError(cur)
        ri == findIsError(results)
        wErr == IF wi = 0 THEN NullErr ELSE cur[wi].error
        rErr == IF ri = 0 THEN NullErr ELSE results[ri].error
    IN  IF wErr # NullErr THEN wErr ELSE rErr

\* ---- provider callbacks -------------------------------------------------
\* registerQueriesAndObservers: results.map over the input in order.  acc
\* carries queriesRef, observersRef, the observer instances and the mapped
\* array of {created, observer}.
\* a registration that never finds the pooled observer
lookupObserverNever(pool, keyString) == MapGet({}, keyString)

\* observersRef.current.get(keyString)
lookupObserver(pool, keyString) == MapGet(pool, keyString)

\* a registry write that keeps the query a key was first registered with
saveQueryOnce(qs, keyString, query) ==
    IF \E e \in qs : e[1] = keyString THEN qs ELSE MapSet(qs, keyString, query)

\* queriesRef.current.set(keyString, query)
saveQuery(qs, keyString, query) == MapSet(qs, keyString, query)

RECURSIVE registerFrom(_, _, _, _, _)
registerFrom(c, queries, i, acc, stored) ==
    IF i > Len(queries) THEN acc
    ELSE
        LET keyString == getQueryKeyString(queries[i])
            currentObserver == lookupObserver(acc.observersRef, keyString)
            fresh == Len(acc.observers) + 1
            observer == IF currentObserver = 0 THEN fresh ELSE currentObserver
        IN  registerFrom(c, queries, i + 1,
              [queriesRef |-> saveQuery(acc.queriesRef, keyString,
                                         keptAs(stored, queries[i])),
               observersRef |->
                   IF currentObserver = 0
                   THEN MapSet(acc.observersRef, keyString, observer)
                   ELSE acc.observersRef,
               observers |->
                   IF currentObserver = 0
                   THEN Append(acc.observers, createObserver(c, queries[i]))
                   ELSE acc.observers,
               result |-> Append(acc.result,
                   [created |-> currentObserver = 0, observer |-> observer])],
              stored)

\* a registration that creates the observers but leaves the pool as it was
registerWithoutPool(c, qs, pool, obs, queries, stored) ==
    [registerFrom(c, queries, 1,
        [queriesRef |-> qs, observersRef |-> pool, observers |-> obs,
         result |-> << >>], stored) EXCEPT !.observersRef = pool]

registerQueriesAndObservers(c, qs, pool, obs, queries, stored) ==
    registerFrom(c, queries, 1,
        [queriesRef |-> qs, observersRef |-> pool, observers |-> obs,
         result |-> << >>], stored)

\* createObserverPromise over every observer handed to Promise.all: an
\* observer whose current result is settled resolves at once, any other one
\* gets the promise's listener subscribed
subscribeNone(obs, ids, p) == obs

subscribeSettledToo(obs, ids, p) ==
    [id \in 1..Len(obs) |->
        IF id \in ids THEN [obs[id] EXCEPT !.listeners = @ \cup {p}] ELSE obs[id]]

subscribeAll(obs, ids, p) ==
    [id \in 1..Len(obs) |->
        IF id \in ids /\ obs[id].status = "pending"
        THEN [obs[id] EXCEPT !.listeners = @ \cup {p}]
        ELSE obs[id]]

\* a promise that waits for no observer
waitingForNone(obs, ids) == {}

\* the observers a new combined promise subscribes to and waits for
waitingFor(obs, ids) == {id \in ids : obs[id].status = "pending"}

\* a coalescer that reuses a promise only while none of the observers it
\* waits for has been destroyed
createCombinedPromiseUnlessTornDown(qpr, proms, obs, ids, queries) ==
    LET querySetKey == generateQuerySetKey(queries)
        existingPromise == MapGet(qpr, querySetKey)
        fresh == Len(proms) + 1
    IN  IF existingPromise # 0
           /\ \A id \in proms[existingPromise].waiting : ~obs[id].destroyed
        THEN [promise |-> existingPromise, queryPromiseRef |-> qpr,
              promises |-> proms, observers |-> obs]
        ELSE [promise |-> fresh,
              queryPromiseRef |-> MapSet(qpr, querySetKey, fresh),
              promises |-> Append(proms,
                  [key |-> querySetKey, handed |-> ids, waiting |-> waitingFor(obs, ids),
                   state |-> "pending"]),
              observers |-> subscribeAll(obs, ids, fresh)]

\* a coalescer that creates a promise on every call
createCombinedPromiseNoReuse(qpr, proms, obs, ids, queries) ==
    LET querySetKey == generateQuerySetKey(queries)
        fresh == Len(proms) + 1
    IN  [promise |-> fresh,
         queryPromiseRef |-> MapSet(qpr, querySetKey, fresh),
         promises |-> Append(proms,
             [key |-> querySetKey, handed |-> ids, waiting |-> waitingFor(obs, ids),
              state |-> "pending"]),
         observers |-> subscribeAll(obs, ids, fresh)]

\* createCombinedPromise: reuse the promise of the query-set key or create,
\* store and return a new one
createCombinedPromise(qpr, proms, obs, ids, queries) ==
    LET querySetKey == generateQuerySetKey(queries)
        existingPromise == MapGet(qpr, querySetKey)
        fresh == Len(proms) + 1
    IN  IF existingPromise # 0
        THEN [promise |-> existingPromise, queryPromiseRef |-> qpr,
              promises |-> proms, observers |-> obs]
        ELSE [promise |-> fresh,
              queryPromiseRef |-> MapSet(qpr, querySetKey, fresh),
              promises |-> Append(proms,
                  [key |-> querySetKey, handed |-> ids, waiting |-> waitingFor(obs, ids),
                   state |-> "pending"]),
              observers |-> subscribeAll(obs, ids, fresh)]

\* every observer of the pool: [...observersRef.current.values()]; the
\* variants look at the pools of both provider instances, or at the
\* observers of the current call only
allObserversShared(pool, registerResult) ==
    MapValues(pool) \cup MapValues(peer.observersRef)

inputObservers(pool, registerResult) ==
    {registerResult[i].observer : i \in 1..Len(registerResult)}

allObserversOf(pool, registerResult) == MapValues(pool)

\* variants of the suspension test: one that ignores suspendOnCreate, one
\* that suspends on every creation
shouldSuspendNoOption(suspendOnCreate, observerCreated, obs, allObservers) ==
    checkLoadingState(obs, allObservers)

shouldSuspendOnEveryCreate(suspendOnCreate, observerCreated, obs, allObservers) ==
    observerCreated \/ checkLoadingState(obs, allObservers)

\* a condition that lets an observer in error status win over suspension
shouldSuspendUnlessError(suspendOnCreate, observerCreated, obs, allObservers) ==
    /\ (suspendOnCreate /\ observerCreated) \/ checkLoadingState(obs, allObservers)
    /\ \A id \in 1..Len(obs) : obs[id].status # "error"

\* a condition that honours suspendOnCreate only while no observer has been
\* destroyed yet
shouldSuspendOnFirstCreate(suspendOnCreate, observerCreated, obs, allObservers) ==
    \/ /\ suspendOnCreate
       /\ observerCreated
       /\ \A id \in 1..Len(obs) : ~obs[id].destroyed
    \/ checkLoadingState(obs, allObservers)

\* the condition of the if at getQueryResult's throw
shouldSuspend(suspendOnCreate, observerCreated, obs, allObservers) ==
    (suspendOnCreate /\ observerCreated) \/ checkLoadingState(obs, allObservers)

\* the data in reverse order
returnDataReversed(results) ==
    [i \in 1..Len(results) |-> results[Len(results) + 1 - i].data]

\* results.map((q) => q.data)
returnData(results) == [i \in 1..Len(results) |-> results[i].data]

NoCall == [op |-> "none", results |-> << >>, suspendOnCreate |-> FALSE,
           status |-> "none", context |-> {}, out |-> "none", promise |-> 0, error |-> NullErr, data |-> << >>,
           created |-> << >>, reused |-> FALSE, resets |-> {}, rejected |-> {}]

\* a provider instance that is not mounted yet
NoProvider == [mounted |-> FALSE, queriesRef |-> {}, observersRef |-> {},
               queryPromiseRef |-> {}]

\* getQueryResult(results, {suspendOnCreate}); stored is what queriesRef keeps
\* of a result object
GetQueryResultOf(results, suspendOnCreate, stored) ==
    LET reg == registerQueriesAndObservers(cache, queriesRef, observersRef,
                                           observers, results, stored)
        registerResult == reg.result
        observerCreated == \E i \in 1..Len(registerResult) : registerResult[i].created
        allObservers == allObserversOf(reg.observersRef, registerResult)
        suspend == shouldSuspend(suspendOnCreate, observerCreated,
                                 reg.observers, allObservers)
        cp == createCombinedPromise(queryPromiseRef, promises, reg.observers,
                                    allObservers, results)
        currentObservers == [i \in 1..Len(registerResult) |-> registerResult[i].observer]
        error == getQueryError(reg.observers, currentObservers, results)
        call == [NoCall EXCEPT !.op = "getQueryResult", !.results = results,
                     !.suspendOnCreate = suspendOnCreate,
                     !.created = [i \in 1..Len(registerResult) |-> registerResult[i].created]]
    IN  /\ last.op = "none"
        /\ Len(reg.observers) <= MaxWatchers
        /\ suspend => Len(cp.promises) <= MaxSignals
        /\ queriesRef' = reg.queriesRef
        /\ observersRef' = reg.observersRef
        /\ UNCHANGED <<cache, clears, refetchVars, providerVars>>
        /\ IF suspend
           THEN /\ queryPromiseRef' = cp.queryPromiseRef
                /\ promises' = cp.promises
                /\ observers' = cp.observers
                /\ last' = [call EXCEPT !.out = "promise", !.promise = cp.promise,
                                        !.reused = (cp.promises = promises)]
           ELSE /\ observers' = reg.observers
                /\ UNCHANGED <<queryPromiseRef, promises>>
                /\ IF Truthy(error)
                   THEN last' = [call EXCEPT !.out = "error", !.error = error]
                   ELSE last' = [call EXCEPT !.out = "data", !.data = returnData(results)]

GetQueryResult(results, suspendOnCreate) ==
    GetQueryResultOf(results, suspendOnCreate, asScreenQuery)

\* a selection that ignores the status argument
queriesToClearAny(c, obs, pool, status) ==
    {obs[id].key : id \in MapValues(pool)}

\* a selection taken from the whole cache instead of the pooled observers
queriesToClearFromCache(c, obs, pool, status) ==
    {k \in Keys : status = "all" \/ c[k].status = status}

\* the keys clearCache resets: observer.getCurrentQuery() of every pooled
\* observer, filtered by the status of the query
queriesToClear(c, obs, pool, status) ==
    {obs[id].key : id \in
        {w \in MapValues(pool) : status = "all" \/ c[obs[w].key].status = status}}

\* a destroy that leaves the observer as it is
destroyNothing(o) == o

\* observer.destroy(): releases the listeners
destroy(o) == [o EXCEPT !.destroyed = TRUE, !.listeners = {}]

\* queryClient.resetQueries: the query goes back to its initial state
resetQuery == [status |-> "pending", error |-> NullErr]

\* a Promise.all that stops issuing requests at the first one that rejects
issuedResetsFailFast(queries, rejected) ==
    IF rejected = {} THEN queries
    ELSE {k \in queries : \A r \in rejected : k <= r}

\* queries.map((query) => queryClient.resetQueries(...)): every request is
\* issued before Promise.all awaits any of them
issuedResets(queries, rejected) == queries

\* await Promise.all(...): clearCache rejects when a request rejects
clearCacheOutcome(rejected) == IF rejected = {} THEN "resolved" ELSE "rejected"

\* clearCache(status); rejected are the reset requests whose promise rejects
ClearCacheWith(status, rejected) ==
    LET selected == queriesToClear(cache, observers, observersRef, status)
        queries == issuedResets(selected, rejected)
    IN  /\ last.op = "none"
        /\ rejected \subseteq selected
        /\ clears < MaxClears
        /\ clears' = clears + 1
        /\ observers' = [id \in 1..Len(observers) |->
                            IF id \in MapValues(observersRef)
                            THEN destroy(observers[id])
                            ELSE IF observers[id].key \in queries /\ observers[id].listeners # {}
                            THEN [observers[id] EXCEPT !.status = resetQuery.status,
                                                       !.error = resetQuery.error]
                            ELSE observers[id]]
        /\ observersRef' = {}
        /\ cache' = [k \in Keys |-> IF k \in queries THEN resetQuery ELSE cache[k]]
        /\ last' = [NoCall EXCEPT !.op = "clearCache", !.status = status,
                                  !.resets = queries, !.rejected = rejected,
                                  !.out = clearCacheOutcome(rejected)]
        /\ UNCHANGED <<queriesRef, queryPromiseRef, promises, refetchVars, providerVars>>

\* clearCache(status) when every reset request resolves
ClearCache(status) == ClearCacheWith(status, {})

\* the caller takes the returned array or catches what was thrown; no other
\* callback runs before the synchronous call is over
Return ==
    /\ last.op # "none"
    /\ last' = NoCall
    /\ UNCHANGED <<cache, queriesRef, observersRef, queryPromiseRef, observers,
                   promises, clears, refetchVars, providerVars>>

\* ---- provider instances ------------------------------------------------
\* a cleanup that destroys nothing
cleanupNone(obs, pool) == obs

\* the cleanup of the effect: currentObservers.forEach(destroy)
cleanup(obs, pool) ==
    [id \in 1..Len(obs) |-> IF id \in MapValues(pool) THEN destroy(obs[id]) ELSE obs[id]]

\* the provider unmounts: the cleanup runs; the maps themselves are left as
\* they are
Unmount ==
    /\ last.op = "none"
    /\ mounted
    /\ mounted' = FALSE
    /\ observers' = cleanup(observers, observersRef)
    /\ UNCHANGED <<cache, queriesRef, observersRef, queryPromiseRef, promises,
                   clears, last, refetchVars, mounts, peer>>

\* a provider instance mounts: useRef(new Map()) gives it three empty maps
Mount ==
    /\ last.op = "none"
    /\ ~mounted
    /\ mounts < MaxMounts
    /\ mounts' = mounts + 1
    /\ mounted' = TRUE
    /\ queriesRef' = {}
    /\ observersRef' = {}
    /\ queryPromiseRef' = {}
    /\ UNCHANGED <<cache, observers, promises, clears, last, refetchVars, peer>>

\* the callbacks of the other provider instance run next: each instance's
\* callbacks close over the refs of that instance
Switch ==
    /\ last.op = "none"
    /\ peer' = [mounted |-> mounted, queriesRef |-> queriesRef,
                observersRef |-> observersRef, queryPromiseRef |-> queryPromiseRef]
    /\ mounted' = peer.mounted
    /\ queriesRef' = peer.queriesRef
    /\ observersRef' = peer.observersRef
    /\ queryPromiseRef' = peer.queryPromiseRef
    /\ UNCHANGED <<cache, observers, promises, clears, last, refetchVars, mounts>>

\* ---- useScreenQueryContext ---------------------------------------------
\* the value of ScreenQueryContext.Provider: the three callbacks
ProviderValue == {"getQueryResult", "refetchQueries", "clearCache"}

\* createContext(undefined): the default value has none of the callbacks
NoContext == {}

\* useContext(ScreenQueryContext): the value of the provider above the
\* component, or the default value
useContext(inside) == IF inside THEN ProviderValue ELSE NoContext

ContextError == "ScreenQueryContext must be used within ScreenQueryProvider"

\* a hook that hands on whatever useContext gives
useScreenQueryContextUnchecked(context) ==
    [out |-> "context", error |-> NullErr, context |-> context]

\* useScreenQueryContext: if (!context) throw new Error(...); return context
useScreenQueryContext(context) ==
    IF context = NoContext
    THEN [out |-> "error", error |-> ContextError, context |-> NoContext]
    ELSE [out |-> "context", error |-> NullErr, context |-> context]

\* a component calls the hook, under the mounted provider or outside of any
UseScreenQueryContext(inside) ==
    LET r == useScreenQueryContext(useContext(inside))
    IN  /\ last.op = "none"
        /\ inside => mounted
        /\ last' = [NoCall EXCEPT !.op = "useScreenQueryContext", !.out = r.out,
                                  !.error = r.error, !.context = r.context]
        /\ UNCHANGED <<cache, queriesRef, observersRef, queryPromiseRef, observers,
                       promises, clears, refetchVars, providerVars>>

\* ---- refetchQueries ----------------------------------------------------
\* [...map.values()] of a map whose values are the keys themselves, as an
\* array
RECURSIVE valuesArray(_)
valuesArray(ks) ==
    IF ks = {} THEN << >>
    ELSE LET k == CHOOSE x \in ks : \A y \in ks : x <= y
         IN  <<k>> \o valuesArray(ks \ {k})

\* the queries of the pooled observers instead of those of the registry
refetchTargetsPooled(qs, pool) == valuesArray({e[1] : e \in pool})

\* const queries = [...queriesRef.current.values()]
refetchTargets(qs, pool) == valuesArray({e[2].queryKey : e \in qs})

\* queryClient.refetchQueries({queryKey, exact: true}): one request, whose
\* promise is pending; notice is the update it produces for the subscribers
refetchRequest(k) == [key |-> k, state |-> "inflight", notice |-> "none"]

\* Promise.all over the requests: rejected as soon as one of them is
\* rejected, resolved when all of them are resolved
promiseAll(requests) ==
    IF \E i \in 1..Len(requests) : requests[i].state = "rejected" THEN "rejected"
    ELSE IF \A i \in 1..Len(requests) : requests[i].state = "resolved" THEN "resolved"
    ELSE "inflight"

\* a restoration that runs only after a successful await
restoreOnSuccess(fn, outcome) == IF outcome = "resolved" THEN "default" ELSE fn

\* finally { notifyManager.setNotifyFunction((fn) => fn()) }
finallyRestore(fn, outcome) == "default"

\* what the notify function does with a scheduled callback: the default one
\* calls it, () => {} does not
notify(fn) == IF fn = "default" THEN "delivered" ELSE "dropped"

\* refetchQueries up to its await: the notify function is replaced and one
\* request per registered query is issued
RefetchQueries ==
    LET queries == refetchTargets(queriesRef, observersRef)
    IN  /\ last.op = "none"
        /\ Len(refetches) < MaxRefetches
        /\ notifyFn' = "noop"
        /\ refetches' = Append(refetches,
               [requests |-> [i \in 1..Len(queries) |-> refetchRequest(queries[i])],
                state |-> "inflight"])
        /\ UNCHANGED <<cache, queriesRef, observersRef, queryPromiseRef, observers,
                       promises, clears, last, providerVars>>

\* the rest of refetchQueries: Promise.all has settled, the finally block
\* restores the notify function and the call resolves or rejects
FinishRefetch(c) ==
    /\ last.op = "none"
    /\ c \in 1..Len(refetches)
    /\ refetches[c].state = "inflight"
    /\ promiseAll(refetches[c].requests) # "inflight"
    /\ notifyFn' = finallyRestore(notifyFn, promiseAll(refetches[c].requests))
    /\ refetches' = [refetches EXCEPT ![c].state = promiseAll(refetches[c].requests)]
    /\ UNCHANGED <<cache, queriesRef, observersRef, queryPromiseRef, observers,
                   promises, clears, last, providerVars>>

\* ---- environment -------------------------------------------------------
\* the fetch of a pending query settles; observers that have a listener
\* follow their query, an observer without a listener keeps its last result
Settle(k, st) ==
    /\ last.op = "none"
    /\ cache[k].status = "pending"
    /\ st.status # "pending"
    /\ cache' = [cache EXCEPT ![k] = st]
    /\ observers' = [id \in 1..Len(observers) |->
                        IF observers[id].key = k /\ observers[id].listeners # {}
                        THEN [observers[id] EXCEPT !.status = st.status, !.error = st.error]
                        ELSE observers[id]]
    /\ UNCHANGED <<queriesRef, observersRef, queryPromiseRef, promises, clears, last,
                   refetchVars, providerVars>>

\* the listener subscribed by createObserverPromise runs on a settled result:
\* unsubscribe() and resolve()
NotifyListener(id, p) ==
    /\ last.op = "none"
    /\ id \in 1..Len(observers)
    /\ p \in observers[id].listeners
    /\ observers[id].status # "pending"
    /\ observers' = [observers EXCEPT ![id].listeners = @ \ {p}]
    /\ promises' = [promises EXCEPT ![p].waiting = @ \ {id}]
    /\ UNCHANGED <<cache, queriesRef, observersRef, queryPromiseRef, clears, last,
                   refetchVars, providerVars>>

\* a then callback that leaves the entry in the map
thenCallbackKeep(qpr, querySetKey) == qpr

\* .then(() => { queryPromiseRef.current.delete(querySetKey) })
thenCallback(qpr, querySetKey) == MapDelete(qpr, querySetKey)

\* Promise.all(...) has resolved: the then callback deletes the entry of the
\* query-set key and the combined promise resolves.  The callback closes
\* over the queryPromiseRef of the provider instance that created the
\* promise, which is the map that holds the promise; the map of an instance
\* that has been replaced by a newly mounted one is out of reach
ResolvePromise(p) ==
    /\ last.op = "none"
    /\ p \in 1..Len(promises)
    /\ promises[p].state = "pending"
    /\ promises[p].waiting = {}
    /\ queryPromiseRef' =
           IF p \in MapValues(queryPromiseRef)
           THEN thenCallback(queryPromiseRef, promises[p].key)
           ELSE queryPromiseRef
    /\ peer' =
           IF p \notin MapValues(queryPromiseRef) /\ p \in MapValues(peer.queryPromiseRef)
           THEN [peer EXCEPT !.queryPromiseRef = thenCallback(@, promises[p].key)]
           ELSE peer
    /\ promises' = [promises EXCEPT ![p].state = "resolved"]
    /\ UNCHANGED <<cache, queriesRef, observersRef, observers, clears, last,
                   refetchVars, mounted, mounts>>

\* the state a refetch request leaves the query in
refetchedState(outcome) ==
    IF outcome = "resolved" THEN [status |-> "success", error |-> NullErr]
    ELSE [status |-> "error", error |-> "e3"]

\* a refetch request settles: the query is updated, the observers that have
\* a listener follow it, and the update is scheduled for the subscribers
RequestSettles(c, i, outcome) ==
    /\ last.op = "none"
    /\ c \in 1..Len(refetches)
    /\ i \in 1..Len(refetches[c].requests)
    /\ refetches[c].requests[i].state = "inflight"
    /\ refetches' = [refetches EXCEPT ![c].requests[i] =
                        [@ EXCEPT !.state = outcome, !.notice = "scheduled"]]
    /\ cache' = [cache EXCEPT ![refetches[c].requests[i].key] = refetchedState(outcome)]
    /\ observers' = [id \in 1..Len(observers) |->
                        IF /\ observers[id].key = refetches[c].requests[i].key
                           /\ observers[id].listeners # {}
                        THEN [observers[id] EXCEPT
                                 !.status = refetchedState(outcome).status,
                                 !.error = refetchedState(outcome).error]
                        ELSE observers[id]]
    /\ UNCHANGED <<queriesRef, observersRef, queryPromiseRef, promises, clears, last,
                   notifyFn, providerVars>>

\* the notifyManager runs a scheduled update through the notify function
\* that is set at that moment
Flush(c, i) ==
    /\ last.op = "none"
    /\ c \in 1..Len(refetches)
    /\ i \in 1..Len(refetches[c].requests)
    /\ refetches[c].requests[i].notice = "scheduled"
    /\ refetches' = [refetches EXCEPT ![c].requests[i].notice = notify(notifyFn)]
    /\ UNCHANGED <<cache, queriesRef, observersRef, queryPromiseRef, observers,
                   promises, clears, last, notifyFn, providerVars>>

\* ---- specifications ----------------------------------------------------
\* a fresh QueryClient and a freshly mounted provider
Init ==
    /\ cache = [k \in Keys |-> resetQuery]
    /\ queriesRef = {}
    /\ observersRef = {}
    /\ queryPromiseRef = {}
    /\ observers = << >>
    /\ promises = << >>
    /\ clears = 0
    /\ last = NoCall
    /\ notifyFn = "default"
    /\ refetches = << >>
    /\ mounted = TRUE
    /\ mounts = 1
    /\ peer = NoProvider

\* the result useQuery gives a component for key k: the view of the cache
DataOf(k) == IF k = 1 THEN "d1" ELSE "d2"
useQuery(c, k) ==
    [queryKey |-> k, status |-> c[k].status,
     data |-> IF c[k].status = "success" THEN DataOf(k) ELSE NoData,
     error |-> c[k].error]

KeyLists == {r \in UNION {[1..n -> Keys] : n \in 1..MaxInput} :
                \A i, j \in DOMAIN r : i # j => r[i] # r[j]}

\* a render pass hands getQueryResult the results of its useQuery hooks
Render(keys, suspendOnCreate) ==
    GetQueryResult([i \in 1..Len(keys) |-> useQuery(cache, keys[i])], suspendOnCreate)

\* the states a fetch settles to
SettledStates == [status : {"success"}, error : {NullErr}]
                 \cup [status : {"error"}, error : {"e3"}]

Next ==
    \/ \E keys \in KeyLists, suspendOnCreate \in BOOLEAN : Render(keys, suspendOnCreate)
    \/ \E status \in {"error", "all"} : ClearCache(status)
    \/ \E k \in Keys, st \in SettledStates : Settle(k, st)
    \/ \E id \in 1..MaxWatchers, p \in 1..MaxSignals : NotifyListener(id, p)
    \/ \E p \in 1..MaxSignals : ResolvePromise(p)
    \/ Return

Spec == Init /\ [][Next]_vars

\* A caller may pass any result objects (the results parameter is not tied
\* to the provider's observers), and a fetch may reject with any value.
AnySettledStates == {st \in QueryState : st.status # "pending"}

NextResults ==
    \/ \E results \in Inputs, suspendOnCreate \in BOOLEAN :
           GetQueryResult(results, suspendOnCreate)
    \/ \E k \in Keys, st \in AnySettledStates : Settle(k, st)
    \/ \E id \in 1..MaxWatchers, p \in 1..MaxSignals : NotifyListener(id, p)
    \/ \E p \in 1..MaxSignals : ResolvePromise(p)
    \/ Return

SpecResults == Init /\ [][NextResults]_vars

\* The registry with the objects it is handed: render passes whose results
\* are the useQuery results of the moment, so that two passes present
\* different objects for a key once its query has changed, and clearCache.
RenderPresented(keys, suspendOnCreate) ==
    GetQueryResultOf([i \in 1..Len(keys) |-> useQuery(cache, keys[i])],
                     suspendOnCreate, asPresented)

NextRegistry ==
    \/ \E keys \in KeyLists : RenderPresented(keys, FALSE)
    \/ \E status \in {"error", "all"} : ClearCache(status)
    \/ \E k \in Keys, st \in SettledStates : Settle(k, st)
    \/ Return

SpecRegistry == Init /\ [][NextRegistry]_vars

\* clearCache with reset requests that may reject: render passes, clearCache
\* with either status and any set of rejecting requests, queries settling.
NextClear ==
    \/ \E keys \in KeyLists, suspendOnCreate \in BOOLEAN : Render(keys, suspendOnCreate)
    \/ \E status \in {"error", "all"}, rejected \in SUBSET Keys :
           ClearCacheWith(status, rejected)
    \/ \E k \in Keys, st \in SettledStates : Settle(k, st)
    \/ Return

SpecClear == Init /\ [][NextClear]_vars

\* Suspend and retry while every fetch succeeds and nothing is torn down.
\* Fetches complete, the notifyManager delivers the scheduled listener
\* calls and the microtask queue runs the then callbacks: each of them runs
\* once the synchronous call in progress is over, so a sequence of renders
\* cannot starve it (strong fairness).  Whether and when a component renders
\* is left open.  The calls are made without suspendOnCreate, so that a
\* promise is thrown on account of a pending observer only.
NextLive ==
    \/ \E keys \in KeyLists : Render(keys, FALSE)
    \/ \E k \in Keys : Settle(k, [status |-> "success", error |-> NullErr])
    \/ \E id \in 1..MaxWatchers, p \in 1..MaxSignals : NotifyListener(id, p)
    \/ \E p \in 1..MaxSignals : ResolvePromise(p)
    \/ Return

Fairness ==
    /\ \A k \in Keys : SF_vars(Settle(k, [status |-> "success", error |-> NullErr]))
    /\ \A id \in 1..MaxWatchers, p \in 1..MaxSignals : SF_vars(NotifyListener(id, p))
    /\ \A p \in 1..MaxSignals : SF_vars(ResolvePromise(p))
    /\ WF_vars(Return)

SpecLive == Init /\ [][NextLive]_vars /\ Fairness

\* a component that registers its queries once they are settled
RenderSettled(keys) ==
    /\ \A i \in 1..Len(keys) : cache[keys[i]].status # "pending"
    /\ Render(keys, FALSE)

\* Pull-to-refresh: components register their settled queries,
\* refetchQueries runs (a second call may start before the first has
\* settled) and clearCache may have destroyed the observers.  A request may
\* resolve or reject.
NextRefetch ==
    \/ \E keys \in KeyLists : RenderSettled(keys)
    \/ ClearCache("all")
    \/ RefetchQueries
    \/ \E c \in 1..MaxRefetches, i \in 1..NKeys, outcome \in {"resolved", "rejected"} :
           RequestSettles(c, i, outcome)
    \/ \E c \in 1..MaxRefetches : FinishRefetch(c)
    \/ \E k \in Keys : Settle(k, [status |-> "success", error |-> NullErr])
    \/ Return

SpecRefetch == Init /\ [][NextRefetch]_vars

\* The updates of a refetch on their way to the subscribers: every request
\* resolves, and the notifyManager runs each scheduled update at some later
\* moment, before or after the call that issued the request has restored
\* the notify function.
NextNotify ==
    \/ \E keys \in KeyLists : RenderSettled(keys)
    \/ RefetchQueries
    \/ \E c \in 1..MaxRefetches, i \in 1..NKeys : RequestSettles(c, i, "resolved")
    \/ \E c \in 1..MaxRefetches : FinishRefetch(c)
    \/ \E c \in 1..MaxRefetches, i \in 1..NKeys : Flush(c, i)
    \/ \E k \in Keys, st \in SettledStates : Settle(k, st)
    \/ Return

SpecNotify == Init /\ [][NextNotify]_vars

\* Mount / getQueryResult / unmount cycles of the provider; the callbacks
\* of an instance are called while it is mounted.
NextMount ==
    \/ \E keys \in KeyLists : mounted /\ Render(keys, FALSE)
    \/ mounted /\ ClearCache("all")
    \/ Unmount
    \/ Mount
    \/ \E k \in Keys : Settle(k, [status |-> "success", error |-> NullErr])
    \/ \E id \in 1..MaxWatchers, p \in 1..MaxSignals : NotifyListener(id, p)
    \/ \E p \in 1..MaxSignals : ResolvePromise(p)
    \/ Return

SpecMount == Init /\ [][NextMount]_vars

\* Two provider instances mounted under one QueryClient.
NextProviders ==
    \/ \E keys \in KeyLists : mounted /\ Render(keys, FALSE)
    \/ mounted /\ ClearCache("all")
    \/ Mount
    \/ Switch
    \/ \E k \in Keys : Settle(k, [status |-> "success", error |-> NullErr])
    \/ \E id \in 1..MaxWatchers, p \in 1..MaxSignals : NotifyListener(id, p)
    \/ \E p \in 1..MaxSignals : ResolvePromise(p)
    \/ Return

SpecProviders == Init /\ [][NextProviders]_vars

\* Components call useScreenQueryContext, under the provider or outside of
\* any provider, and use the context they get.
NextContext ==
    \/ \E inside \in BOOLEAN : UseScreenQueryContext(inside)
    \/ \E keys \in KeyLists : mounted /\ Render(keys, FALSE)
    \/ Unmount
    \/ Mount
    \/ \E k \in Keys, st \in SettledStates : Settle(k, st)
    \/ Return

SpecContext == Init /\ [][NextContext]_vars

\* Suspend and retry with teardown: as NextLive, and clearCache may run at
\* any moment, also while a thrown promise is unresolved.  Every fetch,
\* also the one a reset query starts again, settles; the scheduled callbacks
\* run as in SpecLive.
NextLiveClear ==
    \/ NextLive
    \/ \E status \in {"error", "all"} : ClearCache(status)

SpecLiveClear == Init /\ [][NextLiveClear]_vars /\ Fairness

\* ---- properties --------------------------------------------------------
IsCall == last.op = "getQueryResult"
InputKeys(l) == {l.results[i].queryKey : i \in 1..Len(l.results)}
PoolKeys(pool) == {e[1] : e \in pool}
Pooled == MapValues(observersRef)
PendingPooled == {id \in Pooled : observers[id].status = "pending"}
KeySet(key) == {key[i] : i \in 1..Len(key)}

\* C1: while any observer of the pool reports pending, also one that an
\* earlier call registered and that is not among the input of the current
\* call, getQueryResult throws a promise: it neither returns nor throws an
\* error.
C1_PoolWideSuspend ==
    (IsCall /\ PendingPooled # {}) => last.out = "promise"

C1_Witness ==
    /\ IsCall
    /\ last.out = "promise"
    /\ \E id \in PendingPooled : observers[id].key \notin InputKeys(last)
    /\ \A id \in Pooled :
           observers[id].key \in InputKeys(last) => observers[id].status = "success"
    /\ \A i \in 1..Len(last.created) : ~last.created[i]

\* C2: getQueryResult returns a data array only when no result of the input
\* is pending, whatever the observer of that key reports.
C2_NoReturnWhilePendingResult ==
    (IsCall /\ last.out = "data") =>
        \A i \in 1..Len(last.results) : last.results[i].status # "pending"

\* C3: the returned array has the length of the input and its i-th element
\* is the data of the i-th input result, in every order of the input.
C3_OrderPreserved ==
    (IsCall /\ last.out = "data") =>
        /\ Len(last.data) = Len(last.results)
        /\ \A i \in 1..Len(last.results) : last.data[i] = last.results[i].data

C3_Witness ==
    /\ IsCall
    /\ last.out = "data"
    /\ Len(last.results) = 2
    /\ last.results[1].queryKey > last.results[2].queryKey
    /\ last.data[1] # last.data[2]
    /\ last.data[1] # NoData
    /\ last.data[2] # NoData

\* the first observer of the input in error status, else the first result of
\* the input in error status, supplies the error
ObserverOfKey(k) == CHOOSE id \in Pooled : observers[id].key = k
ErrInputObservers ==
    {i \in 1..Len(last.results) :
        observers[ObserverOfKey(last.results[i].queryKey)].status = "error"}
ErrInputResults ==
    {i \in 1..Len(last.results) : last.results[i].status = "error"}
Least(S) == CHOOSE i \in S : \A j \in S : i <= j

\* C4: a call that does not suspend throws the error of the first input
\* observer in error status (in input order), else the error of the first
\* input result in error status; an observer's error wins over a result's.
C4_ErrorSearchOrder ==
    (IsCall /\ last.out # "promise" /\ (ErrInputObservers \cup ErrInputResults) # {}) =>
        /\ last.out = "error"
        /\ last.error =
             IF ErrInputObservers # {}
             THEN observers[ObserverOfKey(
                      last.results[Least(ErrInputObservers)].queryKey)].error
             ELSE last.results[Least(ErrInputResults)].error

\* C5: the coalescer holds one promise per query-set key, at most one
\* unresolved promise exists per set of input keys, and a call that suspends
\* while an unresolved promise of its set of input keys exists throws that
\* very instance.
C5_OnePerKey ==
    /\ \A e1, e2 \in queryPromiseRef : e1[1] = e2[1] => e1 = e2
    /\ \A e \in queryPromiseRef :
           /\ e[2] \in 1..Len(promises)
           /\ promises[e[2]].key = e[1]
           /\ promises[e[2]].state = "pending"
    /\ \A p, q \in 1..Len(promises) :
           (/\ promises[p].state = "pending"
            /\ promises[q].state = "pending"
            /\ KeySet(promises[p].key) = KeySet(promises[q].key)) => p = q

C5_SharedSignal ==
    /\ []C5_OnePerKey
    /\ [][(last'.op = "getQueryResult" /\ last'.out = "promise") =>
            /\ last'.promise \in 1..Len(promises')
            /\ KeySet(promises'[last'.promise].key) = InputKeys(last')
            /\ \A q \in 1..Len(promises) :
                 (/\ promises[q].state = "pending"
                  /\ KeySet(promises[q].key) = InputKeys(last')) => last'.promise = q]_vars

C5_Witness ==
    /\ IsCall
    /\ last.out = "promise"
    /\ last.reused
    /\ Len(last.results) = 2

\* C6: the pool holds at most one observer per key; a call whose input keys
\* are all pooled creates no observer and leaves the pool as it is; only
\* clearCache takes an observer out of the pool.
C6_PoolShape ==
    /\ \A e1, e2 \in observersRef : (e1[1] = e2[1] \/ e1[2] = e2[2]) => e1 = e2
    /\ \A e \in observersRef :
           /\ e[2] \in 1..Len(observers)
           /\ observers[e[2]].key = e[1]

C6_IdempotentRegistration ==
    /\ []C6_PoolShape
    /\ [][(last'.op = "getQueryResult" /\ InputKeys(last') \subseteq PoolKeys(observersRef)) =>
            (observersRef' = observersRef /\ Len(observers') = Len(observers))]_vars
    /\ [][(~(observersRef \subseteq observersRef')) => last'.op = "clearCache"]_vars

C6_Witness ==
    /\ IsCall
    /\ Len(last.results) = 2
    /\ \A i \in 1..Len(last.created) : ~last.created[i]
    /\ Cardinality(observersRef) = 2

\* C7: without teardown and with every fetch succeeding, every promise thrown
\* by getQueryResult resolves, and a retry made when the queries of the pool
\* have succeeded returns the data of its input in input order.
C7_RetryReturns ==
    (/\ IsCall
     /\ \A i \in 1..Len(last.created) : ~last.created[i]
     /\ \A k \in PoolKeys(observersRef) : cache[k].status = "success") =>
        /\ last.out = "data"
        /\ last.data = [i \in 1..Len(last.results) |-> DataOf(last.results[i].queryKey)]

C7_SuspendRetryTerminates ==
    /\ \A p \in 1..MaxSignals :
           (Len(promises) >= p) ~>
               (Len(promises) >= p /\ promises[p].state = "resolved")
    /\ []C7_RetryReturns

C7_Witness ==
    /\ IsCall
    /\ last.out = "data"
    /\ Len(last.results) = 2
    /\ \E p \in 1..Len(promises) :
           /\ promises[p].state = "resolved"
           /\ KeySet(promises[p].key) = InputKeys(last)
           /\ \A id \in Pooled : observers[id].status = "success"

\* C8: with suspendOnCreate a call that creates an observer throws a promise
\* even when every result and every pooled observer is settled; the same call
\* made when its observers exist does not suspend unless a pooled observer
\* is pending.
C8_SuspendOnCreate ==
    [][(last'.op = "getQueryResult" /\ last'.suspendOnCreate) =>
         LET createdNow == ~(InputKeys(last') \subseteq PoolKeys(observersRef))
             pending == \E e \in observersRef' : observers'[e[2]].status = "pending"
         IN  /\ createdNow => last'.out = "promise"
             /\ (~createdNow /\ ~pending) => last'.out # "promise"]_vars

C8_Witness ==
    /\ IsCall
    /\ last.suspendOnCreate
    /\ last.out = "promise"
    /\ \E i \in 1..Len(last.created) : last.created[i]
    /\ PendingPooled = {}
    /\ \A i \in 1..Len(last.results) : last.results[i].status = "success"

C10_FirstCallThrows ==
    (/\ IsCall
     /\ ~last.suspendOnCreate
     /\ \A i \in 1..Len(last.created) : last.created[i]
     /\ \A i \in 1..Len(last.results) : last.results[i].status = "success") =>
        last.out = "promise"

\* C11: clearCache with either status leaves the registry as it is, empties
\* the pool and destroys every observer that was pooled; a later call for a
\* key the registry knows creates a new observer for it, which is pooled and
\* not destroyed.
C11_ClearCacheTeardown ==
    /\ [][last'.op = "clearCache" =>
            /\ queriesRef' = queriesRef
            /\ observersRef' = {}
            /\ \A id \in MapValues(observersRef) :
                   observers'[id].destroyed /\ observers'[id].listeners = {}]_vars
    /\ [][(last'.op = "getQueryResult" /\ clears > 0) =>
            \A i \in 1..Len(last'.results) :
                LET k == last'.results[i].queryKey
                IN  (k \in PoolKeys(queriesRef) /\ k \notin PoolKeys(observersRef)) =>
                        /\ last'.created[i]
                        /\ MapGet(observersRef', k) > Len(observers)
                        /\ ~observers'[MapGet(observersRef', k)].destroyed
                        /\ PoolKeys(queriesRef) \subseteq PoolKeys(queriesRef')]_vars

C11_Witness ==
    /\ IsCall
    /\ clears > 0
    /\ \E i \in 1..Len(last.created) :
           /\ last.created[i]
           /\ \E id \in 1..Len(observers) :
                  /\ observers[id].key = last.results[i].queryKey
                  /\ observers[id].destroyed

\* C12: clearCache('error') resets the cache entry of exactly the pooled
\* keys whose query is in error status when it is called and leaves every
\* other cache entry as it is; every pooled observer is destroyed, whatever
\* its status.
C12_ClearErrorSelective ==
    [][(last'.op = "clearCache" /\ last'.status = "error") =>
         /\ \A k \in Keys :
                cache'[k] = IF k \in PoolKeys(observersRef) /\ cache[k].status = "error"
                            THEN resetQuery ELSE cache[k]
         /\ \A id \in MapValues(observersRef) : observers'[id].destroyed]_vars

\* a clearCache('error') has just run over one errored and one successful
\* pooled query
C12_Witness ==
    /\ last.op = "clearCache"
    /\ last.status = "error"
    /\ \E a, b \in 1..Len(observers) :
           /\ observers[a].destroyed /\ observers[b].destroyed
           /\ observers[a].status = "error" /\ observers[b].status = "success"
           /\ cache[observers[a].key] = resetQuery
           /\ cache[observers[b].key].status = "success"

\* C13: clearCache('all') resets the cache entry of every key of the
\* registry, whatever calls were made before.
C13_ClearAllResetsRegistry ==
    [][(last'.op = "clearCache" /\ last'.status = "all") =>
         \A k \in PoolKeys(queriesRef) : cache'[k] = resetQuery]_vars

\* ---- refetchQueries: properties ---------------------------------------
Calls == 1..Len(refetches)
Requests(c) == 1..Len(refetches[c].requests)
InFlight(c) == refetches[c].state = "inflight"

\* C14: a refetchQueries call issues exactly one refetch request for every
\* key of the registry, also for a key whose observer clearCache has
\* destroyed, and none for any other key.
C14_OneRequestPerRegistered ==
    [][Len(refetches') = Len(refetches) + 1 =>
         LET requests == refetches'[Len(refetches')].requests
         IN  \A k \in Keys :
                 Cardinality({i \in 1..Len(requests) : requests[i].key = k})
                     = IF k \in PoolKeys(queriesRef) THEN 1 ELSE 0]_vars

C14_Witness ==
    \E c \in Calls :
        /\ Len(refetches[c].requests) = 2
        /\ InFlight(c)
        /\ \A i \in Requests(c) : refetches[c].requests[i].state = "inflight"
        /\ observersRef = {}
        /\ \E id \in 1..Len(observers) : observers[id].destroyed

\* C15: while a refetchQueries call is in flight the notify function is the
\* suppressing one, also when another refetchQueries call overlaps it.
C15_SuppressedWhileInFlight ==
    \A c \in Calls : InFlight(c) => notifyFn = "noop"

\* C16: the updates produced by the requests of a refetchQueries call are
\* not delivered one by one while the call is in flight, and none of them is
\* lost: they reach the subscribers once the call has restored the notify
\* function.
C16_DeliveredAtRestoration ==
    \A c \in Calls : \A i \in Requests(c) :
        /\ refetches[c].requests[i].notice # "dropped"
        /\ refetches[c].requests[i].notice = "delivered" => ~InFlight(c)

\* C17: refetchQueries settles only when every request it issued has
\* settled, and it rejects exactly when one of them has rejected.
C17_SettlesAfterAllRequests ==
    \A c \in Calls :
        ~InFlight(c) =>
            /\ \A i \in Requests(c) : refetches[c].requests[i].state # "inflight"
            /\ refetches[c].state = "rejected" <=>
                   \E i \in Requests(c) : refetches[c].requests[i].state = "rejected"

\* C18: when no refetchQueries call is in flight, whether the calls made so
\* far resolved or rejected, the notify function is the default one.
C18_NotLeftSuppressed ==
    (\A c \in Calls : ~InFlight(c)) => notifyFn = "default"

C18_Witness ==
    /\ Len(refetches) = 2
    /\ refetches[1].state = "resolved"
    /\ refetches[2].state = "rejected"
    /\ Len(refetches[1].requests) > 0

\* ---- provider instances: properties -----------------------------------
Live(id) == ~observers[id].destroyed \/ observers[id].listeners # {}

\* C19: an observer that is not destroyed, or that still has a listener
\* subscribed, is in the pool of the mounted provider: when the provider
\* unmounts every observer of its pool is destroyed and its listeners are
\* released, so no observer of an unmounted provider stays live over any
\* number of mount / getQueryResult / unmount cycles.
C19_NoLiveObserverAfterUnmount ==
    \A id \in 1..Len(observers) :
        Live(id) => (mounted /\ id \in MapValues(observersRef))

\* the second provider instance has unmounted, as the first one did, and
\* the observer of a query that was still being awaited is among the
\* destroyed ones
C19_Witness ==
    /\ ~mounted
    /\ mounts = 2
    /\ observersRef # {}
    /\ \E id \in 1..Len(observers) : id \notin MapValues(observersRef)
    /\ \E p \in 1..Len(promises) : promises[p].waiting \cap MapValues(observersRef) # {}

\* C20: the two provider instances share no observer and no promise; a call
\* of one instance leaves the registry, pool and coalescer of the other as
\* they are, destroys none of its observers and subscribes to none of them;
\* getQueryResult suspends on the pending observers of its own pool only.
C20_OwnPoolOnly ==
    /\ MapValues(observersRef) \cap MapValues(peer.observersRef) = {}
    /\ MapValues(queryPromiseRef) \cap MapValues(peer.queryPromiseRef) = {}
    /\ (IsCall /\ ~last.suspendOnCreate /\ PendingPooled = {}) => last.out # "promise"

C20_Isolated ==
    /\ []C20_OwnPoolOnly
    /\ [][last'.op \in {"getQueryResult", "clearCache"} =>
            /\ peer' = peer
            /\ \A id \in MapValues(peer.observersRef) :
                   /\ observers'[id].destroyed = observers[id].destroyed
                   /\ observers'[id].listeners = observers[id].listeners]_vars

\* a call returns data while the other instance has a pending observer
\* pooled
C20_Witness ==
    /\ IsCall
    /\ last.out = "data"
    /\ peer.mounted
    /\ \E id \in MapValues(peer.observersRef) :
           observers[id].status = "pending" /\ ~observers[id].destroyed

Signals == 1..Len(promises)
Resolved(p) == promises[p].state = "resolved"
Coalescers == queryPromiseRef \cup peer.queryPromiseRef

\* C22: a combined promise resolves only when every observer that was handed
\* to createCombinedPromise at its creation (the whole pool of that moment)
\* reports success or error; the resolution takes its entry out of the
\* coalescer, and a later suspending call with the same query-set key throws
\* another instance.
C22_ResolvesAfterHandedObservers ==
    /\ [][\A p \in Signals :
            (~Resolved(p) /\ promises'[p].state = "resolved") =>
                /\ \A id \in promises[p].handed : observers[id].status # "pending"
                /\ MapGet(queryPromiseRef, promises[p].key) = p
                /\ MapGet(queryPromiseRef', promises[p].key) = 0]_vars
    /\ [][(last'.op = "getQueryResult" /\ last'.out = "promise") =>
            \A p \in Signals :
                (Resolved(p) /\ promises[p].key = promises'[last'.promise].key) =>
                    (last'.promise # p /\ last'.promise > p)]_vars

\* a second instance has been thrown for a query-set key whose first promise
\* had awaited two observers and has resolved
C22_Witness ==
    /\ IsCall
    /\ last.out = "promise"
    /\ \E p \in Signals :
           /\ Resolved(p)
           /\ p # last.promise
           /\ promises[p].key = promises[last.promise].key
           /\ Cardinality(promises[p].handed) = 2
           /\ \A id \in promises[p].handed : observers[id].status # "pending"

\* C23: the combined promise of a query-set key awaits the observers of the
\* keys of that set and no other observer, so that it resolves once the
\* observers of its set report success or error.
C23_AwaitsOwnSetOnly ==
    \A p \in Signals :
        /\ \A id \in promises[p].handed : observers[id].key \in KeySet(promises[p].key)
        /\ \A id \in promises[p].waiting : observers[id].key \in KeySet(promises[p].key)

\* C24: every combined promise thrown by getQueryResult resolves in the end,
\* given that every query settles, whatever calls are made in between, a
\* clearCache while the promise is unresolved included.
C24_EverySignalResolves ==
    \A p \in 1..MaxSignals :
        (Len(promises) >= p) ~> (Len(promises) >= p /\ promises[p].state = "resolved")

C26_ThrownSignalAwaitsPool ==
    (IsCall /\ last.out = "promise") =>
        \A id \in PendingPooled : id \in promises[last.promise].waiting

\* C27: every promise stored in a coalescer is unresolved, and the promise a
\* getQueryResult call throws is unresolved, also when suspendOnCreate makes
\* the call build a promise over observers that are all settled already: the
\* promise takes its entry out of the map at the moment it resolves.
C27_StoredSignalsUnresolved ==
    /\ \A e \in Coalescers : e[2] \in Signals /\ ~Resolved(e[2])
    /\ (IsCall /\ last.out = "promise") =>
           /\ ~Resolved(last.promise)
           /\ <<generateQuerySetKey(last.results), last.promise>> \in queryPromiseRef
    /\ \A p \in Signals : Resolved(p) => p \notin MapValues(queryPromiseRef)

C27_Witness ==
    /\ IsCall
    /\ last.suspendOnCreate
    /\ last.out = "promise"
    /\ promises[last.promise].waiting = {}
    /\ \E p \in Signals : Resolved(p) /\ promises[p].key = promises[last.promise].key

\* C28: combined promises do not leak subscriptions: the listener a promise
\* places on a pending observer is removed in the step in which that observer
\* reports success or error to it, an observer that is settled when the
\* promise is created gets no listener of it, and a resolved promise has no
\* listener left on any observer.
C28_NoLeakedSubscriptions ==
    /\ [](\A id \in 1..Len(observers) : \A p \in observers[id].listeners :
              /\ p \in Signals
              /\ ~Resolved(p)
              /\ id \in promises[p].waiting)
    /\ [][\A id \in 1..Len(observers) : \A p \in observers[id].listeners :
              (id \notin promises'[p].waiting) => p \notin observers'[id].listeners]_vars
    /\ [][Len(promises') > Len(promises) =>
              \A id \in 1..Len(observers') :
                  observers'[id].status # "pending" =>
                      Len(promises') \notin observers'[id].listeners]_vars

C28_Witness ==
    /\ IsCall
    /\ last.out = "promise"
    /\ ~last.reused
    /\ \E id \in promises[last.promise].handed :
           /\ observers[id].status # "pending"
           /\ last.promise \notin observers[id].listeners
    /\ \E id \in promises[last.promise].handed :
           /\ observers[id].status = "pending"
           /\ last.promise \in observers[id].listeners
    /\ \E q \in Signals :
           /\ Resolved(q)
           /\ promises[q].handed \cap promises[last.promise].handed # {}

\* C29: suspension takes precedence over errors: a call whose input has an
\* observer or a result in error status throws the combined promise, not the
\* error, when a pooled observer is pending or when suspendOnCreate is set
\* and the call created an observer; a call throws an error value only when
\* neither is the case.
SuspensionCondition ==
    \/ PendingPooled # {}
    \/ last.suspendOnCreate /\ \E i \in 1..Len(last.created) : last.created[i]

C29_SuspensionBeforeErrors ==
    IsCall =>
        /\ ((ErrInputObservers \cup ErrInputResults) # {} /\ SuspensionCondition) =>
               (last.out = "promise" /\ last.error = NullErr)
        /\ last.out = "error" =>
               (~SuspensionCondition /\ (ErrInputObservers \cup ErrInputResults) # {})

C29_Witness ==
    /\ IsCall
    /\ last.out = "promise"
    /\ ErrInputObservers # {}
    /\ PendingPooled # {}
    /\ ~last.suspendOnCreate

\* C30: error detection is limited to the input: a pooled observer in error
\* status that is not an observer of the call's input does not make the call
\* throw; a call made while no pooled observer is pending and the
\* suspendOnCreate condition is false, with no observer and no result of its
\* input in error status, returns the data array.
C30_ErrorsOfInputOnly ==
    (/\ IsCall
     /\ ~SuspensionCondition
     /\ ErrInputObservers = {}
     /\ ErrInputResults = {}) =>
        /\ last.out = "data"
        /\ last.data = returnData(last.results)

C30_Witness ==
    /\ IsCall
    /\ last.out = "data"
    /\ \E id \in Pooled :
           /\ observers[id].status = "error"
           /\ Truthy(observers[id].error)
           /\ observers[id].key \notin InputKeys(last)

\* C31: registration is not rolled back by a throw: after a call that throws
\* a promise or an error every key of its input is in queriesRef and has a
\* live observer in the pool, the throw leaves both maps as the registration
\* made them, and a call whose input keys are all pooled (the retry) creates
\* no observer and is served by the pooled ones.
Threw == IsCall /\ last.out \in {"promise", "error"}

C31_RegistrationSurvivesThrow ==
    /\ [](Threw =>
            /\ InputKeys(last) \subseteq PoolKeys(queriesRef)
            /\ \A k \in InputKeys(last) :
                   /\ MapGet(observersRef, k) \in 1..Len(observers)
                   /\ observers[MapGet(observersRef, k)].key = k
                   /\ ~observers[MapGet(observersRef, k)].destroyed)
    /\ [][Threw => (/\ queriesRef' = queriesRef
                    /\ observersRef' = observersRef
                    /\ observers' = observers)]_vars
    /\ [][(last'.op = "getQueryResult" /\ last'.out \in {"promise", "error"}
             /\ InputKeys(last') \subseteq PoolKeys(observersRef)) =>
            /\ \A i \in 1..Len(last'.created) : ~last'.created[i]
            /\ observersRef' = observersRef
            /\ Len(observers') = Len(observers)]_vars

C31_Witness ==
    /\ Threw
    /\ last.out = "error"
    /\ \A i \in 1..Len(last.created) : last.created[i]
    /\ Len(last.results) = 2

\* C32: every key with a pooled observer is a key of the registry; no
\* operation takes a key out of the registry; the registry holds one entry
\* per key, and its value is the object presented by the most recent
\* getQueryResult call whose input had that key: a call stores each object
\* of its input and leaves the other entries alone, nothing else writes.
RegistryKeys == PoolKeys(queriesRef)

C32_RegistryLatestDescriptor ==
    /\ [](/\ PoolKeys(observersRef) \subseteq RegistryKeys
          /\ \A e1, e2 \in queriesRef : e1[1] = e2[1] => e1 = e2)
    /\ [][RegistryKeys \subseteq PoolKeys(queriesRef')]_vars
    /\ [][IF last'.op = "getQueryResult"
          THEN /\ \A i \in 1..Len(last'.results) :
                      <<last'.results[i].queryKey, last'.results[i]>> \in queriesRef'
               /\ \A e \in queriesRef : e[1] \notin InputKeys(last') => e \in queriesRef'
          ELSE queriesRef' = queriesRef]_vars

C32_Witness ==
    /\ IsCall
    /\ clears > 0
    /\ \E i \in 1..Len(last.results) :
           /\ last.results[i].status = "success"
           /\ ~last.created[i]
    /\ \E e \in queriesRef :
           /\ e[1] \notin InputKeys(last)
           /\ e[1] \notin PoolKeys(observersRef)
           /\ e[2].status = "pending"
           /\ cache[e[1]].status # "pending"

\* C33: the query-set key depends on the collection of input keys and not on
\* their order: two inputs have the same key exactly when they hold the same
\* keys; a suspending call is thrown the promise stored under the key of its
\* input, which is the unresolved promise a call with a permutation of that
\* input was thrown, and never a promise that was created for another
\* collection of keys, although both were built over the same pool.
KeysOf(results) == [i \in 1..Len(results) |-> results[i].queryKey]
IsPermutation(s, t) ==
    /\ Len(s) = Len(t)
    /\ \A k \in Keys : Cardinality({i \in 1..Len(s) : s[i] = k})
                         = Cardinality({i \in 1..Len(t) : t[i] = k})

C33_KeyIgnoresOrder ==
    /\ \A k1, k2 \in KeyLists :
           (generateQuerySetKey([i \in 1..Len(k1) |-> [queryKey |-> k1[i]]])
              = generateQuerySetKey([i \in 1..Len(k2) |-> [queryKey |-> k2[i]]]))
               <=> IsPermutation(k1, k2)
    /\ [][(last'.op = "getQueryResult" /\ last'.out = "promise") =>
            /\ <<generateQuerySetKey(last'.results), last'.promise>> \in queryPromiseRef'
            /\ \A e \in queryPromiseRef :
                   IF IsPermutation(e[1], KeysOf(last'.results))
                   THEN last'.promise = e[2]
                   ELSE last'.promise # e[2]
            /\ \A q \in 1..Len(promises) :
                   ~IsPermutation(promises[q].key, KeysOf(last'.results)) =>
                       last'.promise # q]_vars

C33_Witness ==
    /\ IsCall
    /\ last.out = "promise"
    /\ last.reused
    /\ KeysOf(last.results) = <<2, 1>>
    /\ promises[last.promise].key = <<1, 2>>
    /\ \E q \in Signals :
           /\ q # last.promise
           /\ ~Resolved(q)
           /\ promises[q].key # promises[last.promise].key
           /\ promises[q].waiting \cap promises[last.promise].waiting # {}

C35_ClearCacheRejects ==
    [][last'.op = "clearCache" =>
          /\ last'.resets =
                 {observers[id].key : id \in
                     {w \in Pooled : last'.status = "all"
                                       \/ cache[observers[w].key].status = last'.status}}
          /\ \A k \in last'.resets : cache'[k] = resetQuery
          /\ (last'.out = "rejected") <=> (last'.rejected # {})
          /\ last'.out \in {"resolved", "rejected"}
          /\ observersRef' = {}
          /\ \A id \in Pooled :
                 /\ observers'[id].destroyed
                 /\ observers'[id].listeners = {}
                 /\ observers'[id].status = observers[id].status
          /\ queriesRef' = queriesRef]_vars

C35_Witness ==
    /\ last.op = "clearCache"
    /\ last.out = "rejected"
    /\ Cardinality(last.resets) = 2
    /\ Cardinality(last.rejected) = 1
    /\ last.status = "error"
    /\ \E id \in 1..Len(observers) :
           observers[id].destroyed /\ observers[id].status = "error"

\* C36: clearCache is a resynchronization point: the first getQueryResult
\* call after a clearCache with either status (the pool is still empty) that
\* passes suspendOnCreate creates a new observer for every key of its input,
\* also for a key whose query is successful and was not reset, and throws a
\* promise.
C36_ResyncAfterClear ==
    [][(/\ last'.op = "getQueryResult"
        /\ last'.suspendOnCreate
        /\ clears > 0
        /\ observersRef = {}) =>
          /\ last'.out = "promise"
          /\ \A i \in 1..Len(last'.results) :
                 /\ last'.created[i]
                 /\ MapGet(observersRef', last'.results[i].queryKey) > Len(observers)
                 /\ ~observers'[MapGet(observersRef', last'.results[i].queryKey)].destroyed]_vars

C36_Witness ==
    /\ IsCall
    /\ last.suspendOnCreate
    /\ last.out = "promise"
    /\ clears > 0
    /\ Cardinality(Pooled) = Len(last.results)
    /\ PendingPooled = {}
    /\ \A i \in 1..Len(last.results) :
           /\ last.created[i]
           /\ last.results[i].status = "success"
           /\ \E id \in 1..Len(observers) :
                  /\ observers[id].destroyed
                  /\ observers[id].key = last.results[i].queryKey
                  /\ observers[id].status = "success"

\* C37: no destroyed observer is an entry of the pool: after the provider
\* has unmounted, as after clearCache, the pool holds no observer, so a later
\* getQueryResult call finds no destroyed observer to reuse or to base its
\* loading check on.
C37_NoDestroyedObserverPooled ==
    /\ \A id \in MapValues(observersRef) : ~observers[id].destroyed
    /\ ~mounted => observersRef = {}

\* C38: a call that does not suspend never returns data while an observer or
\* a result of its input is in error status, whatever error value that
\* status carries, null included.
C38_NoDataWhileInputInError ==
    (IsCall /\ last.out = "data") =>
        (ErrInputObservers = {} /\ ErrInputResults = {})

====
